---------------------------- MODULE Spec2Model ----------------------------
(***************************************************************************)
(* Model of the multilingual-translator front end: the authentication gate *)
(* (PrivateRoute) in front of the translator view, and the translator      *)
(* view's recording session, waveform visualizer and backend submissions.  *)
(*                                                                         *)
(* The browser runs one task at a time, so every action below is one task  *)
(* of the event loop: a click handler, the continuation of an awaited      *)
(* promise, a MediaRecorder event task or an animation frame callback.     *)
(* React re-renders and runs the effect of [recording] within the task     *)
(* that changed the state.  A state setter called after the view has       *)
(* unmounted does nothing; refs and platform objects outlive the view.     *)
(* The model follows one visit of the /translate route.                    *)
(***************************************************************************)
EXTENDS Naturals, Sequences, FiniteSets

\* Number of startRecording calls followed (each call is one session id).
MaxStarts == 2
\* Number of fetches issued by handleTranslate and handleFileUpload that may
\* be in flight together.
MaxRequests == 1

Sessions == 1..MaxStarts

None == "none"
User == "user"
Identities == {None, User}

Paths == {"speech", "text", "file"}

\* Messages handed to setError.
MicDeniedMsg == "Microphone access denied or error: "
VisMicMsg == "Mic access denied or error: "
ConnectionMsg == "Connection error."
EmptyTextMsg == "Please enter or record some text to translate."
BackendMsg == "backend error"

VARIABLES
  route,              \* the current route
  user, loading,      \* PrivateRoute state
  pushed,             \* the identity most recently pushed by the provider
  rendered,           \* what PrivateRoute rendered last
  page,               \* TranslatorPage: "none", "mounted", "unmounted"
  supported,          \* navigator.mediaDevices.getUserMedia exists
  text, translatedText, isTranslating, error, recording,
  mediaRecorderRef, audioChunksRef,
  animationIdRef, audioContextRef, analyserRef, sourceRef,
  nStarts,            \* startRecording calls so far
  pendingStart,       \* startRecording calls awaiting getUserMedia
  recorder,           \* state of each MediaRecorder
  delivered,          \* the chunk events each recorder has fired
  payload,            \* the blob handleRecordingStop built on each recorder's stop
  vis,                \* the visualizer's getUserMedia promise of each effect run
  loops,              \* drawWaveform loops with a pending animation frame
  closeCalls,         \* close() calls on each audio context
  liveStreams,        \* microphone streams acquired and not stopped
  inflight,           \* fetches in flight, per submission path
  lastAct             \* the task that led to this state

gateVars == <<route, user, loading, pushed, rendered>>
stateVars == <<text, translatedText, isTranslating, error, recording>>
recVars == <<mediaRecorderRef, audioChunksRef, nStarts, pendingStart, recorder,
             delivered, payload>>
visVars == <<animationIdRef, audioContextRef, analyserRef, sourceRef, vis, loops,
             closeCalls>>
vars == <<gateVars, page, supported, stateVars, recVars, visVars, liveStreams,
          inflight, lastAct>>

NoResp == [kind |-> "none", ok |-> FALSE, audio_url |-> FALSE, error |-> FALSE]

\* A backend outcome: the fetch or the JSON parse rejects ("fail"), or a JSON
\* body with or without audio_url and error, under an ok or a non-ok status.
Responses ==
  {[NoResp EXCEPT !.kind = "fail"]} \cup
  [kind : {"json"}, ok : BOOLEAN, audio_url : BOOLEAN, error : BOOLEAN]

\* The record of a task: the handler, the session it belongs to, and for the
\* settling of a fetch its path, the outcome and whether new Audio(..).play()
\* was called; alert tells that window.alert was called.
Act(op, id) ==
  [op |-> op, id |-> id, path |-> "", resp |-> NoResp, played |-> FALSE,
   alert |-> FALSE]

Mounted == page = "mounted"


\* A state setter: the new value of a state cell holding cur.
SetState(cur, v) == IF Mounted THEN v ELSE cur

-----------------------------------------------------------------------------
(* The authentication gate. *)

\* PrivateRoute without the test of user.
PrivateRouteRender_IgnoresUser(l, u) == IF l THEN "loading" ELSE "element"

PrivateRouteRender(l, u) ==
  IF l THEN "loading" ELSE IF u # None THEN "element" ELSE "redirect"

-----------------------------------------------------------------------------
(* The effect of [recording]: the refs it reads and writes, as a record. *)

Refs ==
  [animationIdRef |-> animationIdRef, audioContextRef |-> audioContextRef,
   analyserRef |-> analyserRef, sourceRef |-> sourceRef, vis |-> vis,
   loops |-> loops, closeCalls |-> closeCalls]

SetRefs(r) ==
  /\ animationIdRef' = r.animationIdRef
  /\ audioContextRef' = r.audioContextRef
  /\ analyserRef' = r.analyserRef
  /\ sourceRef' = r.sourceRef
  /\ vis' = r.vis
  /\ loops' = r.loops
  /\ closeCalls' = r.closeCalls

\* cancelAnimationFrame(id): the frame with that id, if still pending, is
\* dropped.  animationIdRef holds the id of the frame requested last, which is
\* the pending frame of the loop that drew last (or a stale id of it).
CancelAnimationFrame(r) ==
  IF r.animationIdRef # 0 THEN [r EXCEPT !.loops = @ \ {r.animationIdRef}] ELSE r

\* A teardown that closes the context and leaves it in audioContextRef.
CloseAudioContext_KeepsRef(r) ==
  IF r.audioContextRef # 0
    THEN [r EXCEPT !.closeCalls[r.audioContextRef] = @ + 1,
                   !.analyserRef = 0, !.sourceRef = 0]
    ELSE r

CloseAudioContext(r) ==
  IF r.audioContextRef # 0
    THEN [r EXCEPT !.closeCalls[r.audioContextRef] = @ + 1,
                   !.audioContextRef = 0, !.analyserRef = 0, !.sourceRef = 0]
    ELSE r

\* The cleanup returned by the effect when it ran with recording true.
EffectCleanup(r) == CloseAudioContext(CancelAnimationFrame(r))

\* The effect body when recording is false (the canvas pixels it clears are
\* not part of the state).
NotRecordingBranch(r) == CloseAudioContext(CancelAnimationFrame(r))

\* The effect body when recording is true, up to the getUserMedia call: a new
\* audio context id, and the visualizer's own getUserMedia promise.
RecordingBranch(r, id) ==
  [r EXCEPT !.audioContextRef = id, !.vis[id] = "pending"]

\* React re-runs the effect when recording changed: the cleanup of the previous
\* run (only the recording run returned one), then the body.
RunEffect(r, old, new, id) ==
  IF old = new THEN r
  ELSE IF new THEN RecordingBranch(r, id)
  ELSE NotRecordingBranch(EffectCleanup(r))

\* setRecording(v) issued with the refs as r.
SetRecording(r, v, id) ==
  /\ recording' = SetState(recording, v)
  /\ SetRefs(IF Mounted THEN RunEffect(r, recording, v, id) ELSE r)

\* The view leaves the tree: the cleanup of the last effect run.
UnmountRefs == IF recording THEN EffectCleanup(Refs) ELSE Refs

-----------------------------------------------------------------------------
Init ==
  /\ route = "/translate"
  /\ user = None
  /\ loading = TRUE
  /\ pushed = "unset"
  /\ rendered = "loading"
  /\ page = "none"
  /\ supported \in BOOLEAN
  /\ text = ""
  /\ translatedText = ""
  /\ isTranslating = FALSE
  /\ error = ""
  /\ recording = FALSE
  /\ mediaRecorderRef = 0
  /\ audioChunksRef = <<>>
  /\ animationIdRef = 0
  /\ audioContextRef = 0
  /\ analyserRef = 0
  /\ sourceRef = 0
  /\ nStarts = 0
  /\ pendingStart = {}
  /\ recorder = [i \in Sessions |-> "none"]
  /\ delivered = [i \in Sessions |-> <<>>]
  /\ payload = [i \in Sessions |-> <<>>]
  /\ vis = [i \in Sessions |-> "none"]
  /\ loops = {}
  /\ closeCalls = [i \in Sessions |-> 0]
  /\ liveStreams = {}
  /\ inflight = [p \in Paths |-> 0]
  /\ lastAct = Act("init", 0)

-----------------------------------------------------------------------------
(* PrivateRoute and the router. *)

\* The provider pushes identity u to the subscribed gate.  Rendering the
\* element mounts the translator view (its first effect run finds nothing to
\* tear down); rendering <Navigate> leaves the route, which unmounts the gate
\* and, with it, the view.
OnAuthStateChanged(u) ==
  /\ route = "/translate"
  /\ user' = u
  /\ loading' = FALSE
  /\ pushed' = u
  /\ rendered' = PrivateRouteRender(loading', user')
  /\ IF rendered' = "element"
       THEN /\ page' = IF page = "none" THEN "mounted" ELSE page
            /\ route' = route
            /\ UNCHANGED visVars
       ELSE /\ page' = IF page = "mounted" THEN "unmounted" ELSE page
            /\ route' = IF rendered' = "redirect" THEN "/login" ELSE route
            /\ SetRefs(IF page = "mounted" THEN UnmountRefs ELSE Refs)
  /\ lastAct' = Act("onAuthStateChanged", 0)
  /\ UNCHANGED <<supported, stateVars, recVars, liveStreams, inflight>>

\* The user follows a Navbar link away from /translate.
NavigateAway ==
  /\ route = "/translate"
  /\ route' = "/"
  /\ rendered' = "nothing"
  /\ page' = IF page = "mounted" THEN "unmounted" ELSE page
  /\ SetRefs(IF page = "mounted" THEN UnmountRefs ELSE Refs)
  /\ lastAct' = Act("navigate", 0)
  /\ UNCHANGED <<user, loading, pushed, supported, stateVars, recVars,
                 liveStreams, inflight>>

-----------------------------------------------------------------------------
(* The recording session controller. *)

\* ondataavailable: an empty blob is dropped, any other is pushed.
OnDataAvailable(chunks, data) ==
  IF data.size > 0 THEN Append(chunks, data) ELSE chunks

\* The Start button (shown while recording is false): startRecording up to its
\* await.  Without capture support it alerts and returns.
StartRecording ==
  /\ Mounted
  /\ ~recording
  /\ error' = ""
  /\ IF ~supported
       THEN /\ lastAct' = [Act("startRecording:unsupported", 0) EXCEPT !.alert = TRUE]
            /\ UNCHANGED <<nStarts, pendingStart>>
       ELSE /\ nStarts < MaxStarts
            /\ nStarts' = nStarts + 1
            /\ pendingStart' = pendingStart \cup {nStarts + 1}
            /\ lastAct' = Act("startRecording", nStarts + 1)
  /\ UNCHANGED <<gateVars, page, supported, text, translatedText, isTranslating,
                 recording, mediaRecorderRef, audioChunksRef, recorder, delivered,
                 payload, visVars, liveStreams, inflight>>

\* getUserMedia of call i resolves: a new MediaRecorder on the stream replaces
\* the one in mediaRecorderRef, the chunk list is replaced by an empty one, the
\* recorder starts, and recording is set.
StartRecordingAcquired(i) ==
  /\ i \in pendingStart
  /\ pendingStart' = pendingStart \ {i}
  /\ liveStreams' = liveStreams \cup {<<"rec", i>>}
  /\ mediaRecorderRef' = i
  /\ audioChunksRef' = <<>>
  /\ recorder' = [recorder EXCEPT ![i] = "recording"]
  /\ SetRecording(Refs, TRUE, i)
  /\ lastAct' = Act("startRecording:acquired", i)
  /\ UNCHANGED <<gateVars, page, supported, text, translatedText, isTranslating,
                 error, nStarts, delivered, payload, inflight>>

\* startRecording with a catch block that swallows the rejection.
StartRecordingDenied_Swallowed(i) ==
  /\ i \in pendingStart
  /\ pendingStart' = pendingStart \ {i}
  /\ lastAct' = Act("startRecording:denied", i)
  /\ UNCHANGED <<gateVars, page, supported, stateVars, mediaRecorderRef,
                 audioChunksRef, nStarts, recorder, delivered, payload, visVars,
                 liveStreams, inflight>>

\* getUserMedia of call i rejects: the catch block.
StartRecordingDenied(i) ==
  /\ i \in pendingStart
  /\ pendingStart' = pendingStart \ {i}
  /\ error' = SetState(error, MicDeniedMsg)
  /\ lastAct' = Act("startRecording:denied", i)
  /\ UNCHANGED <<gateVars, page, supported, text, translatedText, isTranslating,
                 recording, mediaRecorderRef, audioChunksRef, nStarts, recorder,
                 delivered, payload, visVars, liveStreams, inflight>>

\* stopRecording assembling the blob itself, without waiting for the stop event.
StopRecording_BuildsPayload ==
  /\ Mounted
  /\ recording
  /\ mediaRecorderRef # 0
  /\ recorder[mediaRecorderRef] = "recording"
  /\ recorder' = [recorder EXCEPT ![mediaRecorderRef] = "stopping"]
  /\ payload' = [payload EXCEPT ![mediaRecorderRef] = <<audioChunksRef>>]
  /\ SetRecording(Refs, FALSE, 0)
  /\ lastAct' = Act("stopRecording", mediaRecorderRef)
  /\ UNCHANGED <<gateVars, page, supported, text, translatedText, isTranslating,
                 error, mediaRecorderRef, audioChunksRef, nStarts, pendingStart,
                 delivered, liveStreams, inflight>>

\* The Stop button (shown while recording is true).  stop() on a recorder
\* that is not recording throws before setRecording is reached.  stop() makes
\* the recorder inactive and queues the task that fires its last
\* dataavailable and its stop event.
StopRecording ==
  /\ Mounted
  /\ recording
  /\ IF mediaRecorderRef # 0 /\ recording
       THEN IF recorder[mediaRecorderRef] = "recording"
              THEN /\ recorder' = [recorder EXCEPT ![mediaRecorderRef] = "stopping"]
                   /\ SetRecording(Refs, FALSE, 0)
              ELSE UNCHANGED <<recorder, recording, visVars>>
       ELSE UNCHANGED <<recorder, recording, visVars>>
  /\ lastAct' = Act("stopRecording", mediaRecorderRef)
  /\ UNCHANGED <<gateVars, page, supported, text, translatedText, isTranslating,
                 error, mediaRecorderRef, audioChunksRef, nStarts, pendingStart,
                 delivered, payload, liveStreams, inflight>>

\* The task queued by stop() on recorder r: dataavailable with the data
\* gathered since start() (start() is called without a timeslice, so this is
\* the recorder's only chunk), then the stop event, whose handler is
\* handleRecordingStop up to its fetch.
RecorderStopTask(r, size) ==
  /\ recorder[r] = "stopping"
  /\ LET data == [rec |-> r, size |-> size]
         chunks == OnDataAvailable(audioChunksRef, data)
     IN /\ audioChunksRef' = chunks
        /\ delivered' = [delivered EXCEPT ![r] = Append(@, data)]
        /\ payload' = [payload EXCEPT ![r] = <<chunks>>]
  /\ recorder' = [recorder EXCEPT ![r] = "inactive"]
  /\ error' = SetState(error, "")
  /\ isTranslating' = SetState(isTranslating, TRUE)
  /\ translatedText' = SetState(translatedText, "")
  /\ inflight' = [inflight EXCEPT !["speech"] = @ + 1]
  /\ lastAct' = Act("handleRecordingStop", r)
  /\ UNCHANGED <<gateVars, page, supported, text, recording, mediaRecorderRef,
                 nStarts, pendingStart, visVars, liveStreams>>

-----------------------------------------------------------------------------
(* The waveform visualizer. *)

\* The visualizer's getUserMedia of effect run j resolves.  With
\* audioContextRef null the callback throws at createMediaStreamSource and the
\* catch handler runs; otherwise it taps the context now in audioContextRef and
\* drawWaveform runs once and requests its next frame.
VisualizerAcquired(j) ==
  /\ vis[j] = "pending"
  /\ liveStreams' = liveStreams \cup {<<"vis", j>>}
  /\ LET r == [Refs EXCEPT !.vis[j] = "done"]
     IN IF r.audioContextRef = 0
          THEN /\ error' = SetState(error, VisMicMsg)
               /\ SetRecording(r, FALSE, 0)
          ELSE /\ SetRefs([r EXCEPT !.sourceRef = j, !.analyserRef = j,
                                    !.animationIdRef = j, !.loops = @ \cup {j}])
               /\ UNCHANGED <<error, recording>>
  /\ lastAct' = Act("visualizer:acquired", j)
  /\ UNCHANGED <<gateVars, page, supported, text, translatedText, isTranslating,
                 recVars, inflight>>

\* The visualizer's getUserMedia of effect run j rejects: the catch handler.
VisualizerDenied(j) ==
  /\ vis[j] = "pending"
  /\ error' = SetState(error, VisMicMsg)
  /\ SetRecording([Refs EXCEPT !.vis[j] = "done"], FALSE, 0)
  /\ lastAct' = Act("visualizer:denied", j)
  /\ UNCHANGED <<gateVars, page, supported, text, translatedText, isTranslating,
                 recVars, liveStreams, inflight>>

\* The animation frame of loop l fires: drawWaveform.  It clears the canvas,
\* reads analyserRef.current (a TypeError when null, which ends the loop) and
\* requests the next frame.
DrawWaveform(l) ==
  /\ l \in loops
  /\ IF analyserRef = 0
       THEN /\ loops' = loops \ {l}
            /\ UNCHANGED animationIdRef
       ELSE /\ animationIdRef' = l
            /\ UNCHANGED loops
  /\ lastAct' = Act("drawWaveform", l)
  /\ UNCHANGED <<gateVars, page, supported, stateVars, recVars, audioContextRef,
                 analyserRef, sourceRef, vis, closeCalls, liveStreams, inflight>>

-----------------------------------------------------------------------------
(* Backend submissions. *)

\* The default message of each submission path.
DefaultMsg(path) ==
  CASE path = "speech" -> "Failed to process speech."
    [] path = "text" -> "Translation failed."
    [] path = "file" -> "Failed to process audio file."

\* A success test that looks at the status alone.
Playable_StatusOnly(path, resp) == resp.ok

\* The success test of each path: handleRecordingStop and handleTranslate test
\* response.ok && data.audio_url, handleFileUpload tests data.audio_url.
Playable(path, resp) ==
  IF path = "file" THEN resp.audio_url ELSE resp.ok /\ resp.audio_url

\* data.error || default
ErrorOf(path, resp) == IF resp.error THEN BackendMsg ELSE DefaultMsg(path)

\* data.transcription || "" (data.translated_text || ""), the field taken as
\* present in a body that carries audio_url.
TextOf(resp) == "translated"

\* The textarea's onChange and the trash button.
SetText(t) ==
  /\ Mounted
  /\ t # text
  /\ text' = t
  /\ lastAct' = Act("setText", 0)
  /\ UNCHANGED <<gateVars, page, supported, translatedText, isTranslating, error,
                 recording, recVars, visVars, liveStreams, inflight>>

\* The Translate button: handleTranslate up to its fetch.
HandleTranslate ==
  /\ Mounted
  /\ IF text = ""
       THEN /\ error' = EmptyTextMsg
            /\ UNCHANGED <<isTranslating, translatedText, inflight>>
       ELSE /\ inflight["text"] + inflight["file"] < MaxRequests
            /\ error' = ""
            /\ isTranslating' = TRUE
            /\ translatedText' = ""
            /\ inflight' = [inflight EXCEPT !["text"] = @ + 1]
  /\ lastAct' = Act("handleTranslate", 0)
  /\ UNCHANGED <<gateVars, page, supported, text, recording, recVars, visVars,
                 liveStreams>>

\* The file input: handleFileUpload with a file chosen.
HandleFileUpload ==
  /\ Mounted
  /\ inflight["text"] + inflight["file"] < MaxRequests
  /\ inflight' = [inflight EXCEPT !["file"] = @ + 1]
  /\ lastAct' = Act("handleFileUpload", 0)
  /\ UNCHANGED <<gateVars, page, supported, stateVars, recVars, visVars,
                 liveStreams>>

\* A fetch of the path settles with resp and the rest of its handler runs.
Respond(path, resp) ==
  /\ inflight[path] > 0
  /\ inflight' = [inflight EXCEPT ![path] = @ - 1]
  /\ LET play == resp.kind = "json" /\ Playable(path, resp)
     IN /\ translatedText' = IF play THEN SetState(translatedText, TextOf(resp))
                             ELSE translatedText
        /\ error' = IF resp.kind = "fail" THEN SetState(error, ConnectionMsg)
                    ELSE IF play THEN error
                    ELSE SetState(error, ErrorOf(path, resp))
        /\ lastAct' = [Act("respond", 0) EXCEPT !.path = path, !.resp = resp,
                                                 !.played = play]
  /\ isTranslating' = IF path = "file" THEN isTranslating
                      ELSE SetState(isTranslating, FALSE)
  /\ UNCHANGED <<gateVars, page, supported, text, recording, recVars, visVars,
                 liveStreams>>

-----------------------------------------------------------------------------
Next ==
  \/ \E u \in Identities : OnAuthStateChanged(u)
  \/ NavigateAway
  \/ StartRecording
  \/ \E i \in Sessions : StartRecordingAcquired(i)
  \/ \E i \in Sessions : StartRecordingDenied(i)
  \/ StopRecording
  \/ \E r \in Sessions, size \in {0, 1} : RecorderStopTask(r, size)
  \/ \E j \in Sessions : VisualizerAcquired(j)
  \/ \E j \in Sessions : VisualizerDenied(j)
  \/ \E l \in Sessions : DrawWaveform(l)
  \/ \E t \in {"", "hello"} : SetText(t)
  \/ HandleTranslate
  \/ HandleFileUpload
  \/ \E path \in Paths, resp \in Responses : Respond(path, resp)

Spec == Init /\ [][Next]_vars

-----------------------------------------------------------------------------
(* The two halves of the view, each with the gate.  The recording session  *)
(* and the visualizer never read what the submissions write, and the       *)
(* submissions read of a session only the chunk list at its stop, so each   *)
(* half is explored on its own: SessionSpec leaves every fetch pending and  *)
(* the text controls untouched; SubmitSpec has the user record one take at  *)
(* a time, leaves the visualizer's getUserMedia pending and unmounts the    *)
(* view by sign-out.                                                        *)

SessionNext ==
  \/ \E u \in Identities : OnAuthStateChanged(u)
  \/ NavigateAway
  \/ StartRecording
  \/ \E i \in Sessions : StartRecordingAcquired(i)
  \/ \E i \in Sessions : StartRecordingDenied(i)
  \/ StopRecording
  \/ \E r \in Sessions, size \in {0, 1} : RecorderStopTask(r, size)
  \/ \E j \in Sessions : VisualizerAcquired(j)
  \/ \E j \in Sessions : VisualizerDenied(j)
  \/ \E l \in Sessions : DrawWaveform(l)

SessionSpec == Init /\ [][SessionNext]_vars

\* The Start button pressed once the previous take has fully stopped.
TakeStart ==
  /\ pendingStart = {}
  /\ \A r \in Sessions : recorder[r] \in {"none", "inactive"}
  /\ StartRecording

SubmitNext ==
  \/ \E u \in Identities : OnAuthStateChanged(u)
  \/ TakeStart
  \/ \E i \in Sessions : StartRecordingAcquired(i)
  \/ StopRecording
  \/ \E r \in Sessions, size \in {0, 1} : RecorderStopTask(r, size)
  \/ \E t \in {"", "hello"} : SetText(t)
  \/ HandleTranslate
  \/ HandleFileUpload
  \/ \E path \in Paths, resp \in Responses : Respond(path, resp)

SubmitSpec == Init /\ [][SubmitNext]_vars


-----------------------------------------------------------------------------
(* Properties. *)

\* The recorders now capturing.
Capturing == {i \in Sessions : recorder[i] = "recording"}

\* The session's recorder has been stopped.
Stopped(i) == recorder[i] \in {"stopping", "inactive"}

\* The last element of a non-empty sequence.
Last(q) == q[Len(q)]

\* The non-empty chunks recorder r has fired, in the order it fired them.
OwnChunks(r) == SelectSeq(delivered[r], LAMBDA c : c.size > 0)

\* C1: at most one MediaRecorder is capturing at any time, under every
\* sequence of start and stop triggers (a second startRecording issued while
\* the first awaits the microphone included).
C1_AtMostOneCapturing == Cardinality(Capturing) <= 1

\* C2: at the moment a new session acquires the microphone, the recorder's
\* stream and the visualizer's stream of every session stopped before have
\* been released.
C2_StoppedStreamsReleased ==
  lastAct.op = "startRecording:acquired" =>
    \A i \in Sessions \ {lastAct.id} :
      Stopped(i) => <<"rec", i>> \notin liveStreams /\ <<"vis", i>> \notin liveStreams

\* C3: when the view unmounts while recording is true, the unmount leaves no
\* microphone stream open, and no drawWaveform step runs after it.
C3_UnmountStopsDrawingAndReleases ==
  (page = "unmounted" /\ recording) =>
    /\ lastAct.op # "drawWaveform"
    /\ lastAct.op \in {"onAuthStateChanged", "navigate"} => liveStreams = {}

\* C4: a JSON response without audio_url, on any of the three paths, starts no
\* playback, and the error state of the (mounted) view becomes the response's
\* error field or, without one, the path's default message.
C4_NoAudioUrlSurfacesError ==
  (lastAct.op = "respond" /\ lastAct.resp.kind = "json" /\ ~lastAct.resp.audio_url) =>
    /\ ~lastAct.played
    /\ Mounted =>
         error = (IF lastAct.resp.error THEN BackendMsg
                  ELSE CASE lastAct.path = "speech" -> "Failed to process speech."
                         [] lastAct.path = "text" -> "Translation failed."
                         [] lastAct.path = "file" -> "Failed to process audio file.")

C4_Witness ==
  /\ lastAct.op = "respond"
  /\ lastAct.path = "speech"
  /\ lastAct.resp.kind = "json"
  /\ lastAct.resp.ok
  /\ ~lastAct.resp.audio_url
  /\ ~lastAct.resp.error
  /\ Mounted
  /\ error = "Failed to process speech."

\* C5: the gate renders the protected element only when the identity pushed
\* last is a signed-in user; before the first push it renders the loading
\* placeholder; after a push of no identity it renders the redirect, and the
\* protected view is mounted only while the element is rendered.
C5_GateFollowsLastPush ==
  /\ rendered = "element" => pushed = User
  /\ (pushed = "unset" /\ route = "/translate") => rendered = "loading"
  /\ pushed = None => rendered = "redirect"
  /\ Mounted => rendered = "element"

\* A sign-out pushed while the protected view was mounted, with a session on.
C5_Witness ==
  /\ pushed = None
  /\ rendered = "redirect"
  /\ page = "unmounted"
  /\ recording

\* C6: a startRecording that fails (no capture support, or getUserMedia
\* rejected) leaves the recording flag and every recorder as they were, creates
\* no recorder, and surfaces an error: the alert, or the error state of the
\* (mounted) view.
C6_FailedStartStaysIdle ==
  [][lastAct'.op \in {"startRecording:unsupported", "startRecording:denied"} =>
       /\ recording' = recording
       /\ recorder' = recorder
       /\ mediaRecorderRef' = mediaRecorderRef
       /\ lastAct'.op = "startRecording:unsupported" => ~recording' /\ lastAct'.alert
       /\ (lastAct'.op = "startRecording:denied" /\ Mounted) => error' = MicDeniedMsg]_vars

C6_Witness ==
  /\ lastAct.op = "startRecording:denied"
  /\ Mounted
  /\ ~recording
  /\ Capturing = {}
  /\ error = MicDeniedMsg

\* C7: no payload exists for a recorder before its stop event, stopRecording
\* itself builds none, and the payload built on the stop event ends with the
\* recorder's last chunk, delivered after the stop call.
C7_PayloadAfterLastChunk ==
  \A r \in Sessions :
    /\ recorder[r] # "inactive" => payload[r] = <<>>
    /\ payload[r] # <<>> =>
         /\ Len(delivered[r]) = 1
         /\ Last(delivered[r]).size > 0 =>
              /\ payload[r][1] # <<>>
              /\ Last(payload[r][1]) = Last(delivered[r])

C7_Witness ==
  \E r \in Sessions :
    /\ recorder[r] = "inactive"
    /\ payload[r] # <<>>
    /\ Last(delivered[r]).size > 0
    /\ Last(payload[r][1]) = Last(delivered[r])

\* C8: the payload assembled at a session's stop is the sequence of the
\* non-empty chunks delivered during that session, in delivery order.
C8_PayloadIsSessionChunksInOrder ==
  \A r \in Sessions : payload[r] # <<>> => payload[r][1] = OwnChunks(r)

\* C9: a response delivered after the view has unmounted starts no playback.
C9_LateResponseIsNoOp ==
  (lastAct.op = "respond" /\ page = "unmounted") => ~lastAct.played

\* C10: at most one render loop is live, and a drawWaveform step runs only
\* while recording is true.
C10_OneLoopOnlyWhileRecording ==
  /\ Cardinality(loops) <= 1
  /\ lastAct.op = "drawWaveform" => recording

\* C11: close() is called at most once on each audio context the effect
\* created, and audioContextRef never holds a context already closed, so a
\* teardown that follows another finds null and does nothing.
C11_CloseAtMostOnce ==
  /\ \A i \in Sessions : closeCalls[i] <= 1
  /\ audioContextRef # 0 => closeCalls[audioContextRef] = 0

\* A stop, where the cleanup closed the context and the not-recording branch
\* that ran after it found audioContextRef null.
C11_Witness ==
  /\ lastAct.op = "stopRecording"
  /\ audioContextRef = 0
  /\ \E i \in Sessions : closeCalls[i] = 1

\* C12: while the view shows recording as false, no MediaRecorder started by
\* startRecording is capturing.
C12_IdleMeansNoCapture == (Mounted /\ ~recording) => Capturing = {}

\* The chunks a sequence holds.
ChunksIn(q) == {q[k] : k \in 1..Len(q)}

\* C13: the chunk list holds only chunks of the recorder in mediaRecorderRef
\* (no chunk of an older session lands in the new session's buffer), and the
\* payload built for a session holds the non-empty chunks of its own recorder
\* and no others.
C13_PayloadOfOwnRecorderOnly ==
  /\ \A c \in ChunksIn(audioChunksRef) : c.rec = mediaRecorderRef
  /\ \A r \in Sessions :
       payload[r] # <<>> => ChunksIn(payload[r][1]) = ChunksIn(OwnChunks(r))

\* C14: in the mounted view isTranslating is true exactly while a submission
\* of handleTranslate or handleRecordingStop is in flight.
C14_TranslatingIffInFlight ==
  Mounted => (isTranslating <=> inflight["text"] + inflight["speech"] > 0)

=============================================================================
